---- MODULE Spec2Model ----
(***************************************************************************)
(* Server process identity on Illumos and Solaris                          *)
(* (src/main/cpp/blaze_util_illumos.cc, src/main/cpp/blaze_util_solaris.cc)*)
(*                                                                         *)
(* GetStartTime reads one field of /proc/<pid>/psinfo,                     *)
(* WriteSystemSpecificProcessIdentifier stores it in server.starttime and  *)
(* VerifyServerProcess compares the stored text with a fresh read.         *)
(* Strings are sequences of one-character strings, paths are sequences of  *)
(* path components.                                                        *)
(***************************************************************************)
EXTENDS Integers, Sequences, FiniteSets

\* ---- bounds of the model ------------------------------------------------
MaxPid == 1
\* the second of the first start time
BootSec == 9
\* start times are the instants 0..MaxInstant after BootSec
MaxInstant == 3
\* the number of values of tv_nsec, a scaled-down 10^9
NsecRange == 2

VARIABLES
  variant,    \* which of the two translation units is built
  proc,       \* /proc: pid -> psinfo_t of the processes that exist
  fs,         \* the file system: path -> file (content, readable)
  writable,   \* whether the server directory accepts a write
  recorded,   \* history: the process instance the last successful record was for
  lastOp,     \* history: the last call made, its arguments and its outcome
  fs0,        \* history: the file system at start
  wpc, wpid, wstart,                          \* a record call in progress
  cpc, cpid, cstart, crd, cresult, coverlap   \* a check call in progress

vars == <<variant, proc, fs, writable, recorded, lastOp, fs0,
          wpc, wpid, wstart, cpc, cpid, cstart, crd, cresult, coverlap>>

recordVars == <<wpc, wpid, wstart>>
checkVars == <<cpc, cpid, cstart, crd, cresult, coverlap>>

\* ---- types ----------------------------------------------------------------
Variants == {"illumos", "solaris"}
Pids == 1..MaxPid
\* timestruc_t: the wall-clock time of an instant
TimeOf(i) == [tv_sec |-> BootSec + (i \div NsecRange), tv_nsec |-> i % NsecRange]
\* the values pr_start takes; the wall clock can be stepped, so the start
\* times of successive processes are in no particular order
Times == {TimeOf(i) : i \in 0..MaxInstant}

\* ---- strings and paths ----------------------------------------------------
DigitChar == <<"0", "1", "2", "3", "4", "5", "6", "7", "8", "9">>

RECURSIVE Decimal(_)
\* the decimal digits of a non-negative integer, most significant first
Decimal(n) ==
  IF n < 10 THEN <<DigitChar[n + 1]>>
  ELSE Append(Decimal(n \div 10), DigitChar[(n % 10) + 1])

\* sprintf(buffer, "%lu", x), for the non-negative x a start time has
FormatLuZeroEmpty(x) == IF x = 0 THEN <<>> ELSE Decimal(x)
FormatLu(x) == Decimal(x)

\* ToString(pid)
ToString(pid) == Decimal(pid)

\* Path::GetRelative(r): the path with the components of r appended
GetRelative(path, r) == path \o r

output_base == <<"output_base">>
\* the server directory the caller of record passes
ServerDir == GetRelative(output_base, <<"server">>)

\* the relative path VerifyServerProcess reads
VerifyRelativeFlat == <<"server.starttime">>
VerifyRelative == <<"server", "server.starttime">>
\* the relative path WriteSystemSpecificProcessIdentifier writes
RecordRelative == <<"server.starttime">>

\* the record file of the output base
RecPath == <<"output_base", "server", "server.starttime">>

\* ---- the collaborators ----------------------------------------------------
\* blaze_util::ReadFile(path, &content): false when the file is absent or
\* cannot be read, and then content is left as the caller initialised it
ReadFile(path) ==
  IF path \in DOMAIN fs /\ fs[path].readable
  THEN [ok |-> TRUE, content |-> fs[path].content]
  ELSE [ok |-> FALSE, content |-> <<>>]

\* the file system after a whole-file replace of path by data
Replace(data, path) ==
  [q \in (DOMAIN fs) \cup {path} |->
     IF q = path THEN [content |-> data, readable |-> TRUE] ELSE fs[q]]

\* blaze_util::WriteFile(data, path): a whole-file replace, or a failure that
\* leaves the file system as it was
WriteFile(data, path) ==
  IF writable THEN [ok |-> TRUE, fs |-> Replace(data, path)]
  ELSE [ok |-> FALSE, fs |-> fs]

\* ---- GetStartTime ---------------------------------------------------------
\* the field of psinfo_t the Illumos build formats
StartFieldIllumos(info) == info.pr_start.tv_sec
\* the field of psinfo_t the Solaris build formats
StartFieldSolaris(info) == info.pr_start.tv_nsec

StartField(info) ==
  IF variant = "illumos" THEN StartFieldIllumos(info) ELSE StartFieldSolaris(info)

\* fopen and fread of /proc/<pid>/psinfo: the processes whose entry the path names
Psinfo(pid_string) == {p \in DOMAIN proc : ToString(p) = pid_string}

\* GetStartTime(pid, &start_time); start_time is left empty when time_set is false
GetStartTime(pid_string) ==
  LET f == Psinfo(pid_string) IN
  IF f = {} THEN [time_set |-> FALSE, start_time |-> <<>>]
  ELSE LET info == proc[CHOOSE p \in f : TRUE] IN
       [time_set |-> TRUE, start_time |-> FormatLu(StartField(info))]

\* ---- VerifyServerProcess --------------------------------------------------
ReturnIllumosLenient(file_present, recorded_start_time, start_time) ==
  (~file_present) \/ recorded_start_time = start_time
\* the return expression of the Illumos build
ReturnIllumos(file_present, recorded_start_time, start_time) ==
  recorded_start_time = start_time
\* the return expression of the Solaris build
ReturnSolaris(file_present, recorded_start_time, start_time) ==
  (~file_present) \/ recorded_start_time = start_time

VerifyReturn(file_present, recorded_start_time, start_time) ==
  IF variant = "illumos"
  THEN ReturnIllumos(file_present, recorded_start_time, start_time)
  ELSE ReturnSolaris(file_present, recorded_start_time, start_time)

\* VerifyServerProcess(pid, output_base): the value returned, whether the
\* record file was read and the number of GetStartTime calls made
VerifyNoEarlyReturn(pid, base) ==
  LET r == GetStartTime(ToString(pid))
      rd == ReadFile(GetRelative(base, VerifyRelative))
  IN [result |-> VerifyReturn(rd.ok, rd.content, r.start_time),
      fileAccess |-> TRUE, queries |-> 1]
VerifyServerProcess(pid, base) ==
  LET r == GetStartTime(ToString(pid)) IN
  IF ~r.time_set THEN [result |-> FALSE, fileAccess |-> FALSE, queries |-> 1]
  ELSE LET rd == ReadFile(GetRelative(base, VerifyRelative)) IN
       [result |-> VerifyReturn(rd.ok, rd.content, r.start_time),
        fileAccess |-> TRUE, queries |-> 1]

\* ---- history --------------------------------------------------------------
\* what is remembered of the call before the last one
Summary(op) == [op |-> op.op, pid |-> op.pid, outcome |-> op.outcome]

NoSummary == [op |-> "none", pid |-> 0, outcome |-> "none"]

\* the record of a call: what was called, for which pid, how it ended, whether
\* it reached its file access, how many GetStartTime queries it made, whether
\* it changed the file system (newfs is the file system it leaves), and the
\* call before it when that was for the same pid
Op(op, pid, outcome, fileAccess, queries, newfs) ==
  [op |-> op, pid |-> pid, outcome |-> outcome, fileAccess |-> fileAccess,
   queries |-> queries, changed |-> (newfs # fs),
   prev |-> IF lastOp.pid = pid /\ pid # 0 THEN Summary(lastOp) ELSE NoSummary]

InitOp ==
  [op |-> "init", pid |-> 0, outcome |-> "init", fileAccess |-> FALSE,
   queries |-> 0, changed |-> FALSE, prev |-> NoSummary]

BoolText(b) == IF b THEN "true" ELSE "false"

\* ---- the initial state ----------------------------------------------------
NoFiles == [q \in {} |-> [content |-> <<>>, readable |-> TRUE]]
\* a record file left by something else: empty, or arbitrary text
OldFiles ==
  {[q \in {RecPath} |-> [content |-> c, readable |-> TRUE]] : c \in {<<>>, <<"x">>}}

Init ==
  /\ variant \in Variants
  /\ proc = [p \in {} |-> [pr_start |-> TimeOf(0)]]
  /\ fs \in {NoFiles} \cup OldFiles
  /\ writable = TRUE
  /\ recorded = {}
  /\ lastOp = InitOp
  /\ fs0 = fs
  /\ wpc = "idle" /\ wpid = 0 /\ wstart = <<>>
  /\ cpc = "idle" /\ cpid = 0 /\ cstart = <<>>
  /\ crd = [ok |-> FALSE, content |-> <<>>]
  /\ cresult = FALSE /\ coverlap = FALSE

\* ---- the environment ------------------------------------------------------
EnvOp ==
  [op |-> "env", pid |-> 0, outcome |-> "env", fileAccess |-> FALSE,
   queries |-> 0, changed |-> FALSE, prev |-> NoSummary]

\* the OS starts a process at time t and assigns it a free pid
Spawn(pid, t) ==
  /\ pid \notin DOMAIN proc
  /\ proc' = [p \in (DOMAIN proc) \cup {pid} |->
                IF p = pid THEN [pr_start |-> t] ELSE proc[p]]
  /\ lastOp' = EnvOp
  /\ UNCHANGED <<variant, fs, writable, recorded, fs0, recordVars, checkVars>>

\* a process exits and its pid becomes free
Exit(pid) ==
  /\ pid \in DOMAIN proc
  /\ proc' = [p \in (DOMAIN proc) \ {pid} |-> proc[p]]
  /\ lastOp' = EnvOp
  /\ UNCHANGED <<variant, fs, writable, recorded, fs0, recordVars, checkVars>>

\* the start time file is deleted while the rest of the server directory stays
DeleteStartTimeFile ==
  /\ RecPath \in DOMAIN fs
  /\ fs' = [q \in (DOMAIN fs) \ {RecPath} |-> fs[q]]
  /\ lastOp' = EnvOp
  /\ UNCHANGED <<variant, proc, writable, recorded, fs0, recordVars, checkVars>>

\* the permissions of the start time file change
Chmod(b) ==
  /\ RecPath \in DOMAIN fs
  /\ fs[RecPath].readable # b
  /\ fs' = [fs EXCEPT ![RecPath].readable = b]
  /\ lastOp' = EnvOp
  /\ UNCHANGED <<variant, proc, writable, recorded, fs0, recordVars, checkVars>>

\* the server directory becomes read-only or full, or writable again
SetWritable(b) ==
  /\ writable # b
  /\ writable' = b
  /\ lastOp' = EnvOp
  /\ UNCHANGED <<variant, proc, fs, recorded, fs0, recordVars, checkVars>>

Env ==
  \/ \E pid \in Pids, t \in Times : Spawn(pid, t)
  \/ \E pid \in Pids : Exit(pid)
  \/ DeleteStartTimeFile
  \/ \E b \in BOOLEAN : Chmod(b)
  \/ \E b \in BOOLEAN : SetWritable(b)

\* ---- the calls, each as one step ------------------------------------------
\* a caller asks the Reader for the start time of pid
ReadStartTime(pid) ==
  LET r == GetStartTime(ToString(pid)) IN
  /\ lastOp' = Op("reader", pid, IF r.time_set THEN "found" ELSE "notfound", FALSE, 1, fs)
  /\ UNCHANGED <<variant, proc, fs, writable, recorded, fs0, recordVars, checkVars>>

\* the call with the result of WriteFile ignored
RecordIgnoringWriteFailure(server_dir, server_pid) ==
  LET r == GetStartTime(ToString(server_pid))
      w == WriteFile(r.start_time, GetRelative(server_dir, RecordRelative))
  IN
  IF ~r.time_set
  THEN /\ lastOp' = Op("record", server_pid, "die_start", FALSE, 1, fs)
       /\ UNCHANGED <<variant, proc, fs, writable, recorded, fs0,
                      recordVars, checkVars>>
  ELSE /\ fs' = w.fs
       /\ recorded' = {[pid |-> server_pid, start |-> proc[server_pid].pr_start]}
       /\ lastOp' = Op("record", server_pid, "ok", TRUE, 1, w.fs)
       /\ UNCHANGED <<variant, proc, writable, fs0, recordVars, checkVars>>

\* the call with the file opened for appending
RecordAppending(server_dir, server_pid) ==
  LET r == GetStartTime(ToString(server_pid))
      path == GetRelative(server_dir, RecordRelative)
      old == IF path \in DOMAIN fs THEN fs[path].content ELSE <<>>
      w == WriteFile(old \o r.start_time, path)
  IN
  IF ~r.time_set
  THEN /\ lastOp' = Op("record", server_pid, "die_start", FALSE, 1, fs)
       /\ UNCHANGED <<variant, proc, fs, writable, recorded, fs0,
                      recordVars, checkVars>>
  ELSE IF ~w.ok
  THEN /\ fs' = w.fs
       /\ lastOp' = Op("record", server_pid, "die_write", TRUE, 1, w.fs)
       /\ UNCHANGED <<variant, proc, writable, recorded, fs0,
                      recordVars, checkVars>>
  ELSE /\ fs' = w.fs
       /\ recorded' = {[pid |-> server_pid, start |-> proc[server_pid].pr_start]}
       /\ lastOp' = Op("record", server_pid, "ok", TRUE, 1, w.fs)
       /\ UNCHANGED <<variant, proc, writable, fs0, recordVars, checkVars>>

\* WriteSystemSpecificProcessIdentifier(server_dir, server_pid)
WriteSystemSpecificProcessIdentifier(server_dir, server_pid) ==
  LET pid_string == ToString(server_pid)
      r == GetStartTime(pid_string)
      start_time_file == GetRelative(server_dir, RecordRelative)
      w == WriteFile(r.start_time, start_time_file)
  IN
  IF ~r.time_set
  THEN \* BAZEL_DIE: Cannot get start time of process
       /\ lastOp' = Op("record", server_pid, "die_start", FALSE, 1, fs)
       /\ UNCHANGED <<variant, proc, fs, writable, recorded, fs0,
                      recordVars, checkVars>>
  ELSE IF ~w.ok
  THEN \* BAZEL_DIE: Cannot write start time in server dir
       /\ fs' = w.fs
       /\ lastOp' = Op("record", server_pid, "die_write", TRUE, 1, w.fs)
       /\ UNCHANGED <<variant, proc, writable, recorded, fs0,
                      recordVars, checkVars>>
  ELSE /\ fs' = w.fs
       /\ recorded' = {[pid |-> server_pid, start |-> proc[server_pid].pr_start]}
       /\ lastOp' = Op("record", server_pid, "ok", TRUE, 1, w.fs)
       /\ UNCHANGED <<variant, proc, writable, fs0, recordVars, checkVars>>

\* the call removing a start time file it found not to match
CheckRemovingStale(pid) ==
  LET v == VerifyServerProcess(pid, output_base) IN
  /\ fs' = IF v.fileAccess /\ ~v.result
           THEN [q \in (DOMAIN fs) \ {RecPath} |-> fs[q]] ELSE fs
  /\ lastOp' = Op("check", pid, BoolText(v.result), v.fileAccess, v.queries, fs')
  /\ UNCHANGED <<variant, proc, writable, recorded, fs0, recordVars, checkVars>>

\* a client calls VerifyServerProcess(pid, output_base)
Check(pid) ==
  LET v == VerifyServerProcess(pid, output_base) IN
  /\ lastOp' = Op("check", pid, BoolText(v.result), v.fileAccess, v.queries, fs)
  /\ UNCHANGED <<variant, proc, fs, writable, recorded, fs0, recordVars, checkVars>>

Next ==
  \/ Env
  \/ \E pid \in Pids : ReadStartTime(pid)
  \/ \E pid \in Pids : WriteSystemSpecificProcessIdentifier(ServerDir, pid)
  \/ \E pid \in Pids : Check(pid)

Spec == Init /\ [][Next]_vars

\* ---- the calls, statement by statement, of two concurrent callers ---------
\* record, first part: the start time of server_pid is read, or the caller dies
RecordGetStartTime(server_pid) ==
  LET r == GetStartTime(ToString(server_pid)) IN
  /\ wpc = "idle"
  /\ wpid' = server_pid
  /\ wstart' = r.start_time
  /\ wpc' = IF r.time_set THEN "write" ELSE "dead"
  /\ UNCHANGED <<variant, proc, fs, writable, recorded, lastOp, fs0, checkVars>>

\* the write done as a truncation followed by the write of the data
RecordWriteFileTorn ==
  \/ /\ wpc = "write"
     /\ writable
     /\ fs' = Replace(<<>>, GetRelative(ServerDir, RecordRelative))
     /\ wpc' = "writing"
     /\ UNCHANGED <<variant, proc, writable, recorded, lastOp, fs0,
                    wpid, wstart, checkVars>>
  \/ /\ wpc = "writing"
     /\ fs' = Replace(wstart, GetRelative(ServerDir, RecordRelative))
     /\ wpc' = "done"
     /\ UNCHANGED <<variant, proc, writable, recorded, lastOp, fs0,
                    wpid, wstart, checkVars>>

\* record, second part: the start time is written, or the caller dies
RecordWriteFile ==
  LET w == WriteFile(wstart, GetRelative(ServerDir, RecordRelative)) IN
  /\ wpc = "write"
  /\ fs' = w.fs
  /\ wpc' = IF w.ok THEN "done" ELSE "dead"
  /\ UNCHANGED <<variant, proc, writable, recorded, lastOp, fs0,
                 wpid, wstart, checkVars>>

\* check, first part: the start time of pid is read, or false is returned
CheckGetStartTime(pid) ==
  LET r == GetStartTime(ToString(pid)) IN
  /\ cpc \in {"idle", "returned"}
  /\ cpid' = pid
  /\ cstart' = r.start_time
  /\ crd' = [ok |-> FALSE, content |-> <<>>]
  /\ cresult' = FALSE
  /\ coverlap' = (wpc = "write")
  /\ cpc' = IF r.time_set THEN "read" ELSE "returned"
  /\ UNCHANGED <<variant, proc, fs, writable, recorded, lastOp, fs0, recordVars>>

\* check, second part: the start time file is read and compared
CheckReadFile ==
  LET rd == ReadFile(GetRelative(output_base, VerifyRelative)) IN
  /\ cpc = "read"
  /\ crd' = rd
  /\ cresult' = VerifyReturn(rd.ok, rd.content, cstart)
  /\ cpc' = "returned"
  /\ UNCHANGED <<variant, proc, fs, writable, recorded, lastOp, fs0,
                 recordVars, cpid, cstart, coverlap>>

NextInterleaved ==
  \/ Env
  \/ \E pid \in Pids : RecordGetStartTime(pid)
  \/ RecordWriteFile
  \/ \E pid \in Pids : CheckGetStartTime(pid)
  \/ CheckReadFile

SpecInterleaved == Init /\ [][NextInterleaved]_vars

\* ---- properties of the calls ----------------------------------------------
\* the last call was op, made for a pid for which a record had just succeeded
Follows(op) ==
  /\ lastOp.op = op
  /\ lastOp.prev = [op |-> "record", pid |-> lastOp.pid, outcome |-> "ok"]

\* the last call was a check of a pid that a process different from the
\* recorded one now holds
ReusedPidChecked ==
  /\ lastOp.op = "check"
  /\ lastOp.pid \in DOMAIN proc
  /\ \E r \in recorded :
       r.pid = lastOp.pid /\ proc[lastOp.pid].pr_start # r.start

\* C1: after a record succeeded for the process at pid, a check of pid returns
\* false once a process with a different pr_start holds the pid, in both
\* builds and whether or not the start time file still exists
C1_AntiPidReuse == ReusedPidChecked => lastOp.outcome = "false"

\* C2: a check that immediately follows a successful record of the same pid
\* returns true
C2_RoundTrip == Follows("check") => lastOp.outcome = "true"
C2_Witness == Follows("check") /\ lastOp.outcome = "true"

\* C3: a check of a pid for which GetStartTime reports no start time returns
\* false, whatever the start time file holds, and does not read the file
C3_NotFoundIsFalse ==
  (lastOp.op = "check" /\ ~GetStartTime(ToString(lastOp.pid)).time_set)
    => (lastOp.outcome = "false" /\ ~lastOp.fileAccess)
C3_Witness ==
  /\ lastOp.op = "check"
  /\ lastOp.pid \notin DOMAIN proc
  /\ recorded # {}
  /\ RecPath \in DOMAIN fs
  /\ lastOp.outcome = "false"

\* C4: a check of a live pid with no start time file returns false in the
\* Illumos build and true in the Solaris build, whatever the start time is
C4_MissingRecordPolicy ==
  (lastOp.op = "check" /\ lastOp.pid \in DOMAIN proc /\ RecPath \notin DOMAIN fs)
    => lastOp.outcome = BoolText(variant = "solaris")
C4_Witness ==
  /\ lastOp.op = "check"
  /\ lastOp.pid \in DOMAIN proc
  /\ RecPath \notin DOMAIN fs
  /\ variant = "solaris"
  /\ lastOp.outcome = "true"

\* C6: record dies exactly when GetStartTime finds no start time (before any
\* write, the file unchanged) or when the write fails (no new record); in every
\* other case it returns with the file holding the start time just read
C6_RecordFailures ==
  lastOp.op = "record" =>
    LET r == GetStartTime(ToString(lastOp.pid)) IN
    /\ lastOp.outcome \in {"die_start", "die_write", "ok"}
    /\ lastOp.outcome = "die_start" <=> ~r.time_set
    /\ lastOp.outcome = "die_start" => (~lastOp.fileAccess /\ ~lastOp.changed)
    /\ lastOp.outcome = "die_write" <=> (r.time_set /\ ~writable)
    /\ lastOp.outcome = "die_write" => ~lastOp.changed
    /\ lastOp.outcome = "ok" =>
         (RecPath \in DOMAIN fs /\ fs[RecPath].content = r.start_time)
C6_Witness ==
  /\ lastOp.op = "record"
  /\ lastOp.outcome = "die_write"
  /\ lastOp.pid \in DOMAIN proc
  /\ RecPath \in DOMAIN fs

\* C7: record for a live pid and a writable server directory succeeds and
\* leaves a start time file of at least one character, also for the field 0
C7_RecordNonEmpty ==
  (lastOp.op = "record" /\ lastOp.pid \in DOMAIN proc /\ writable)
    => /\ lastOp.outcome = "ok"
       /\ RecPath \in DOMAIN fs
       /\ Len(fs[RecPath].content) >= 1
C7_Witness ==
  /\ lastOp.op = "record"
  /\ lastOp.outcome = "ok"
  /\ StartField(proc[lastOp.pid]) = 0
  /\ fs[RecPath].content = <<"0">>

\* C8: a check and a Reader query leave the start time file, the process
\* table and the rest of the persisted state unchanged; a call changes the
\* file only as a successful record, which replaces it whole by the start
\* time just read
C8_RecordImmutable ==
  [][ /\ lastOp'.op \in {"check", "reader"} =>
           (fs' = fs /\ proc' = proc /\ writable' = writable)
      /\ (fs' # fs /\ lastOp'.op # "env") =>
           /\ lastOp'.op = "record"
           /\ lastOp'.outcome = "ok"
           /\ fs' = Replace(GetStartTime(ToString(lastOp'.pid)).start_time, RecPath)
    ]_vars
C8_Witness ==
  /\ lastOp.op = "check"
  /\ lastOp.outcome = "false"
  /\ lastOp.fileAccess
  /\ recorded # {}
  /\ RecPath \in DOMAIN fs
  /\ ~lastOp.changed

\* C9: a check of a live pid whose start time file exists but cannot be read
\* returns false in both builds
C9_ReadErrorIsFalse ==
  (/\ lastOp.op = "check"
   /\ lastOp.pid \in DOMAIN proc
   /\ RecPath \in DOMAIN fs
   /\ ~fs[RecPath].readable)
    => lastOp.outcome = "false"

\* C10: a record that immediately follows a successful record of the same
\* pid succeeds and leaves the file as it was; a check that immediately
\* follows a check of the same pid returns the same value; each call makes
\* one GetStartTime query
C10_Idempotent ==
  /\ Follows("record") => (lastOp.outcome = "ok" /\ ~lastOp.changed)
  /\ (lastOp.op = "check" /\ lastOp.prev.op = "check" /\ lastOp.prev.pid = lastOp.pid)
       => lastOp.outcome = lastOp.prev.outcome
  /\ lastOp.op \in {"record", "check"} => lastOp.queries = 1
C10_Witness ==
  /\ Follows("record")
  /\ lastOp.outcome = "ok"
  /\ fs[RecPath].content = GetStartTime(ToString(lastOp.pid)).start_time

\* the start time file was read by a check
FileWasRead == cpc = "returned" /\ crd.ok

====
